---- MODULE Spec2Model ----
(***************************************************************************)
(* Battery digital-twin dashboard: the Range Loader (load_generated_data), *)
(* the Report Builder (generate_report, safe_convert) and the Historical   *)
(* Analysis view of src/app.py, over a fixture store laid out as           *)
(* data/<year>/<quarter>/<month>.json (src/utils/data_generator.py).       *)
(*                                                                         *)
(* Values are tagged: a cell of a table or a value of a JSON record is     *)
(* [kind, v] with kind one of                                              *)
(*   "num"      a finite number v (integers stand for the measurements)    *)
(*   "nan"      a missing value (JSON null, NaN, NaT, absent key)          *)
(*   "inf"      +infinity          "ninf"   -infinity                      *)
(*   "text"     a string that is no number and no date                     *)
(*   "datestr"  the string 'YYYY-MM-DD' of the date v = yyyymmdd           *)
(*   "ts"       a pandas Timestamp of the date v = yyyymmdd                *)
(* Exact rationals <<n, d>> stand for the floating-point results.          *)
(***************************************************************************)
EXTENDS Integers, Sequences, FiniteSets, TLC

VARIABLES
    store,          \* fixture store: year -> Missing or quarter/month files
    listing,        \* the order os.listdir enumerates a year directory in
    start_date,     \* the view's "Start Date" input (yyyymmdd)
    end_date,       \* the view's "End Date" input (yyyymmdd)
    pc,             \* position of the render / of the direct call
    current_year,   \* load_generated_data: loop variable
    data,           \* load_generated_data: the records kept so far
    heap,           \* the DataFrame objects alive: object id -> table
    df,             \* the caller's reference to its table (0: unbound)
    result,         \* what generate_report returned or raised
    ui              \* the widgets emitted so far in this render

vars == <<store, listing, start_date, end_date, pc, current_year, data,
          heap, df, result, ui>>

-----------------------------------------------------------------------------
(* Bounds of the model *)

\* total number of records in the fixture store
MaxEntries == 2
\* number of rows of a table handed directly to generate_report
MaxRows == 3

-----------------------------------------------------------------------------
(* Values *)

Num(n)     == [kind |-> "num", v |-> n]
NaN        == [kind |-> "nan", v |-> 0]
PosInf     == [kind |-> "inf", v |-> 0]
NegInf     == [kind |-> "ninf", v |-> 0]
Text       == [kind |-> "text", v |-> 0]
DateStr(d) == [kind |-> "datestr", v |-> d]
Timestamp(d) == [kind |-> "ts", v |-> d]

IsNum(x) == x.kind = "num"

\* pd.isna on a scalar
IsNa(x) == x.kind = "nan"

YearOf(d)  == d \div 10000
MonthOf(d) == (d \div 100) % 100
DayOf(d)   == d % 100

RECURSIVE Gcd(_, _)
Gcd(a, b) == IF b = 0 THEN a ELSE Gcd(b, a % b)

Abs(n) == IF n < 0 THEN -n ELSE n

\* the exact quotient n/d (d # 0) in lowest terms with a positive denominator
Rat(n, d) ==
    LET g == Gcd(Abs(n), Abs(d))
        s == IF d < 0 THEN -1 ELSE 1
    IN  <<(s * n) \div g, (s * d) \div g>>

Range(s) == {s[i] : i \in 1..Len(s)}

SeqsUpTo(S, n) == UNION {[1..k -> S] : k \in 0..n}

-----------------------------------------------------------------------------
(* The fixture store (src/utils/data_generator.py) *)

\* the years the generator writes and the view's date inputs default to
FirstYear == 2023
LastYear  == 2024
Years == FirstYear..LastYear

\* the calendar dates records and range inputs are drawn from: two
\* consecutive days of one month, and a day two months later in the next year
Dates == {20231230, 20231231, 20240201}

Keys == {"date", "cycles", "temperature", "capacity_ah", "internal_resistance"}

\* generate_battery_data: the measurements of a day degrade with the days
\* since the start (capacity falls, resistance and cycles rise)
BaseValue(d, k) ==
    CASE d = 20231230 ->
           (CASE k = "cycles" -> 0 [] k = "temperature" -> 20
              [] k = "capacity_ah" -> 100 [] OTHER -> 10)
      [] d = 20231231 ->
           (CASE k = "cycles" -> 1 [] k = "temperature" -> 30
              [] k = "capacity_ah" -> 99 [] OTHER -> 11)
      [] OTHER ->
           (CASE k = "cycles" -> 11 [] k = "temperature" -> 25
              [] k = "capacity_ah" -> 98 [] OTHER -> 12)

\* the record generate_battery_data writes for day d
DailyRecord(d) ==
    [k \in Keys |-> IF k = "date" THEN DateStr(d) ELSE Num(BaseValue(d, k))]

Without(entry, k) == [x \in (DOMAIN entry) \ {k} |-> entry[x]]

\* a record of a month file: the generator's record, or one a hand-edited or
\* damaged file holds (json.load accepts null, Infinity and -Infinity)
Entry(d, a) ==
    CASE a = "none"           -> DailyRecord(d)
      [] a = "nodate"         -> Without(DailyRecord(d), "date")
      [] a = "baddate"        -> [DailyRecord(d) EXCEPT !["date"] = Text]
      [] a = "bare"           -> [k \in {"date"} |-> DateStr(d)]
      [] a = "cap_null"       -> [DailyRecord(d) EXCEPT !["capacity_ah"] = NaN]
      [] a = "cap_inf"        -> [DailyRecord(d) EXCEPT !["capacity_ah"] = PosInf]
      [] a = "cap_text"       -> [DailyRecord(d) EXCEPT !["capacity_ah"] = Text]
      [] a = "temp_missing"   -> Without(DailyRecord(d), "temperature")
      [] a = "temp_ninf"      -> [DailyRecord(d) EXCEPT !["temperature"] = NegInf]
      [] OTHER                -> Without(DailyRecord(d), "cycles")

\* the records the month files of the store are filled from
StoreEntries ==
    { Entry(20231230, "none"), Entry(20240201, "none"),
      Entry(20231231, "bare"), Entry(20231231, "nodate"),
      Entry(20231230, "baddate") }

\* save_data: data/<year>/Q<n>/<month>.json; two quarters with a month file each
QuarterNames == {"Q1", "Q3"}
MonthFiles(q) == IF q = "Q1" THEN {"01.json"} ELSE {"07.json"}
Locations == {<<y, q, f>> \in Years \X QuarterNames \X {"01.json", "07.json"} :
                 f \in MonthFiles(q)}

Firsts(ps) == [i \in 1..Len(ps) |-> ps[i][1]]

\* the store holding the records s, record i in the month file at loc[i],
\* with a directory for each year of ex
StoreOf(s, loc, ex) ==
    [y \in Years |->
       [exists |-> y \in ex,
        quarters |->
          [q \in QuarterNames |->
             [f \in MonthFiles(q) |->
                Firsts(SelectSeq([i \in 1..Len(s) |-> <<s[i], loc[i]>>],
                                 LAMBDA p : p[2] = <<y, q, f>>))]]]]

Stores ==
    UNION { UNION { { StoreOf(s, loc, ex)
                      : ex \in {e \in SUBSET Years :
                                  \A i \in 1..Len(s) : loc[i][1] \in e} }
                    : loc \in [1..Len(s) -> Locations] }
            : s \in SeqsUpTo(StoreEntries, MaxEntries) }

\* the orders os.listdir may enumerate the quarter directories in
Listings == {<<"Q1", "Q3">>, <<"Q3", "Q1">>}

-----------------------------------------------------------------------------
(* load_generated_data (src/app.py 36-64) *)

\* datetime.strptime(s, "%Y-%m-%d") raises unless s is a 'YYYY-MM-DD' string
CanStrptime(s) == s.kind = "datestr"
Strptime(s) == s.v

\* a range that leaves its bounds out
InRange_exclusive(entry_date, start_dt, end_dt) ==
    start_dt < entry_date /\ entry_date < end_dt

\* start_dt <= entry_date <= end_dt
InRange(entry_date, start_dt, end_dt) ==
    start_dt <= entry_date /\ entry_date <= end_dt

\* for entry in monthly_data: ... data.append(entry)
RECURSIVE ScanEntries(_, _, _, _)
ScanEntries(monthly_data, start_dt, end_dt, acc) ==
    IF monthly_data = <<>> THEN [raised |-> FALSE, data |-> acc]
    ELSE LET entry == Head(monthly_data)
             rest  == Tail(monthly_data)
         IN  IF "date" \notin DOMAIN entry
             THEN ScanEntries(rest, start_dt, end_dt, acc)
             ELSE IF ~CanStrptime(entry["date"])
             THEN [raised |-> TRUE, data |-> acc]
             ELSE IF InRange(Strptime(entry["date"]), start_dt, end_dt)
             THEN ScanEntries(rest, start_dt, end_dt, Append(acc, entry))
             ELSE ScanEntries(rest, start_dt, end_dt, acc)

\* for month_file in os.listdir(quarter_dir): one month file per quarter
ScanQuarter(quarter_dir, start_dt, end_dt, acc) ==
    LET f == CHOOSE x \in DOMAIN quarter_dir : TRUE
    IN  ScanEntries(quarter_dir[f], start_dt, end_dt, acc)

\* for quarter in os.listdir(year_dir)
RECURSIVE ScanYear(_, _, _, _, _)
ScanYear(year_dir, order, start_dt, end_dt, acc) ==
    IF order = <<>> THEN [raised |-> FALSE, data |-> acc]
    ELSE LET r == ScanQuarter(year_dir.quarters[Head(order)], start_dt, end_dt, acc)
         IN  IF r.raised THEN r
             ELSE ScanYear(year_dir, Tail(order), start_dt, end_dt, r.data)

\* a loader that does not test for the directory
YearExists_unchecked(st, y) == TRUE

\* os.path.exists(year_dir)
YearExists(st, y) == y \in DOMAIN st /\ st[y].exists

\* the year the loop turns to after a missing year directory (continue)
AfterMissingYear(y, end_year) == y + 1

\* pd.DataFrame(data): the columns are the union of the records' keys, a key
\* a record lacks is missing; then df['date'] = pd.to_datetime(df['date'])
ToDatetime(x) == IF x.kind = "datestr" THEN Timestamp(x.v) ELSE x

Columns(records) == UNION {DOMAIN records[i] : i \in 1..Len(records)}

MakeFrame(records) ==
    LET cols == Columns(records)
    IN  [cols |-> cols,
         rows |-> [i \in 1..Len(records) |->
                     [c \in cols |->
                        IF c \notin DOMAIN records[i] THEN NaN
                        ELSE IF c = "date" THEN ToDatetime(records[i][c])
                        ELSE records[i][c]]]]

\* DataFrame.empty: an axis of length 0
Empty(t) == Len(t.rows) = 0 \/ t.cols = {}

-----------------------------------------------------------------------------
(* safe_convert (src/app.py 14-34) *)

None      == [kind |-> "null", v |-> 0]
Dict(row) == [kind |-> "dict", v |-> row]
\* str(value) of a dict: the text "{'date': Timestamp('...'), ...}"
StrOf(x)  == [kind |-> "repr", v |-> x.v]

\* json.dumps(value) succeeds: numbers (NaN and Infinity included), strings and
\* None are serializable, a Timestamp or NaT is not, a dict is when its values are
RECURSIVE JsonDumps(_, _)
JsonDumps(x, key) ==
    CASE x.kind = "ts"   -> FALSE
      [] x.kind = "nan"  -> key # "date"
      [] x.kind = "dict" -> \A c \in DOMAIN x.v : JsonDumps(x.v[c], c)
      [] OTHER           -> TRUE

SafeConvert(value) ==
    IF value.kind # "dict" /\ IsNa(value) THEN None
    ELSE IF value.kind = "ts" THEN DateStr(value.v)
    ELSE IF JsonDumps(value, "") THEN value
    ELSE StrOf(value)

-----------------------------------------------------------------------------
(* generate_report (src/app.py 74-101) *)

NumericCols == {"voltage", "current", "temperature", "state_of_charge",
                "cycles", "capacity_ah", "internal_resistance"}

\* df.replace([np.inf, -np.inf], np.nan)
ReplaceInf(t) ==
    [t EXCEPT !.rows =
       [i \in 1..Len(t.rows) |->
          [c \in t.cols |-> IF t.rows[i][c].kind \in {"inf", "ninf"}
                            THEN NaN ELSE t.rows[i][c]]]]

\* no gap fill
FFillRows_none(rows, acc) == rows

\* .fillna(method='ffill'): a missing cell takes the cell above it
RECURSIVE FFillRows(_, _)
FFillRows(rows, acc) ==
    IF rows = <<>> THEN acc
    ELSE LET r == Head(rows)
             filled == [c \in DOMAIN r |->
                          IF IsNa(r[c]) /\ acc # <<>>
                          THEN acc[Len(acc)][c] ELSE r[c]]
         IN  FFillRows(Tail(rows), Append(acc, filled))

FFill(t) == [t EXCEPT !.rows = FFillRows(t.rows, <<>>)]

\* pd.to_numeric(df[col], errors='coerce') for the numeric columns present
ToNumeric(x) == IF x.kind = "num" THEN x ELSE NaN

Coerce(t) ==
    [t EXCEPT !.rows =
       [i \in 1..Len(t.rows) |->
          [c \in t.cols |-> IF c \in NumericCols THEN ToNumeric(t.rows[i][c])
                            ELSE t.rows[i][c]]]]

\* floating-point results: an exact rational, or NaN / +inf / -inf
FNum(n, d) == [kind |-> "num", v |-> Rat(n, d)]
FNaN       == [kind |-> "nan", v |-> <<0, 1>>]
FInf       == [kind |-> "inf", v |-> <<0, 1>>]
FNegInf    == [kind |-> "ninf", v |-> <<0, 1>>]

\* the numbers of column c in the rows, missing values skipped
ColNums(rows, c) ==
    LET idx == SelectSeq([i \in 1..Len(rows) |-> i], LAMBDA i : IsNum(rows[i][c]))
    IN  [j \in 1..Len(idx) |-> rows[idx[j]][c].v]

RECURSIVE SumSeq(_)
SumSeq(s) == IF s = <<>> THEN 0 ELSE Head(s) + SumSeq(Tail(s))

MaxOf(S) == CHOOSE x \in S : \A y \in S : y <= x
MinOf(S) == CHOOSE x \in S : \A y \in S : x <= y

\* Series.mean(): NaN when no value is left
MeanOf(nums) == IF nums = <<>> THEN FNaN ELSE FNum(SumSeq(nums), Len(nums))

\* the fade between the rows of the earliest and the latest date
CapacityFade_byDate(rows) ==
    LET dated == {i \in 1..Len(rows) : rows[i]["date"].kind = "ts"}
        lo == CHOOSE i \in dated : \A j \in dated : rows[i]["date"].v <= rows[j]["date"].v
        hi == CHOOSE i \in dated : \A j \in dated : rows[j]["date"].v <= rows[i]["date"].v
        first == rows[lo]["capacity_ah"]
        last  == rows[hi]["capacity_ah"]
    IN  IF ~IsNum(first) \/ ~IsNum(last) \/ first.v = 0 THEN FNaN
        ELSE FNum(first.v - last.v, first.v)

\* the operands of the quotient swapped: 1 - first/last
CapacityFade_swapped(rows) ==
    LET first == rows[1]["capacity_ah"]
        last  == rows[Len(rows)]["capacity_ah"]
    IN  IF ~IsNum(first) \/ ~IsNum(last) \/ last.v = 0 THEN FNaN
        ELSE FNum(last.v - first.v, last.v)

\* 1 - df['capacity_ah'].iloc[-1] / df['capacity_ah'].iloc[0]
CapacityFade(rows) ==
    LET first == rows[1]["capacity_ah"]
        last  == rows[Len(rows)]["capacity_ah"]
    IN  IF ~IsNum(first) \/ ~IsNum(last) THEN FNaN
        ELSE IF first.v = 0
        THEN (IF last.v = 0 THEN FNaN ELSE IF last.v > 0 THEN FNegInf ELSE FInf)
        ELSE FNum(first.v - last.v, first.v)

\* df.to_dict('records') and safe_convert of each row
Daily(rows) == [i \in 1..Len(rows) |-> SafeConvert(Dict(rows[i]))]

DaysInMonth(y, m) ==
    IF m = 2 THEN (IF (y % 4 = 0 /\ y % 100 # 0) \/ y % 400 = 0 THEN 29 ELSE 28)
    ELSE IF m \in {4, 6, 9, 11} THEN 30 ELSE 31

\* calendar months counted from year 0
MonthIndex(d) == YearOf(d) * 12 + MonthOf(d) - 1
\* the label of a month bin of resample('M'): the month's last day
MonthEnd(mi) ==
    LET y == mi \div 12
        m == (mi % 12) + 1
    IN  y * 10000 + m * 100 + DaysInMonth(y, m)

\* bins for the months that hold a record only
MonthBins_occupied(rows) ==
    LET ms == {MonthIndex(rows[i]["date"].v) :
                 i \in {j \in 1..Len(rows) : rows[j]["date"].kind = "ts"}}
        RECURSIVE Sorted(_)
        Sorted(S) == IF S = {} THEN <<>>
                     ELSE LET x == CHOOSE y \in S : \A z \in S : y <= z
                          IN  <<x>> \o Sorted(S \ {x})
    IN  Sorted(ms)

\* resample('M', on='date'): one bin for every month from the earliest to the
\* latest date, rows whose date is NaT dropped
MonthBins(rows) ==
    LET ds == {rows[i]["date"].v : i \in {j \in 1..Len(rows) : rows[j]["date"].kind = "ts"}}
        lo == MonthIndex(MinOf(ds))
        hi == MonthIndex(MaxOf(ds))
    IN  [k \in 1..(hi - lo + 1) |-> lo + k - 1]

RowsOfMonth(rows, mi) ==
    SelectSeq(rows, LAMBDA r : r["date"].kind = "ts" /\ MonthIndex(r["date"].v) = mi)

\* applymap(safe_convert) and the column's type inferred again: in a column
\* that holds numbers a None is a NaN again
InferColumn(col) ==
    IF \E i \in 1..Len(col) : col[i].kind = "num"
    THEN [i \in 1..Len(col) |-> IF col[i].kind = "null" THEN FNaN ELSE col[i]]
    ELSE col

\* .mean(numeric_only=True).reset_index().applymap(safe_convert).to_dict('list')
MonthlyAvg(t) ==
    LET bins == MonthBins(t.rows)
    IN  [c \in {"date"} \cup (t.cols \cap NumericCols) |->
           IF c = "date"
           THEN [k \in 1..Len(bins) |-> SafeConvert(Timestamp(MonthEnd(bins[k])))]
           ELSE InferColumn(
                  [k \in 1..Len(bins) |->
                     SafeConvert(MeanOf(ColNums(RowsOfMonth(t.rows, bins[k]), c)))])]

\* the dict literal of the return statement, its values evaluated in order;
\* t is the local table after gap fill and coercion
BuildReport(t) ==
    IF "cycles" \notin t.cols THEN [status |-> "KeyError"]
    ELSE IF ColNums(t.rows, "cycles") = <<>> THEN [status |-> "ValueError"]
    ELSE IF "temperature" \notin t.cols \/ "capacity_ah" \notin t.cols
            \/ "internal_resistance" \notin t.cols
    THEN [status |-> "KeyError"]
    ELSE IF "date" \notin t.cols THEN [status |-> "KeyError"]
    ELSE IF \A i \in 1..Len(t.rows) : t.rows[i]["date"].kind # "ts"
    THEN [status |-> "ValueError"]
    ELSE [status |-> "ok",
          report |->
            [summary |->
               [total_cycles |-> Num(MaxOf(Range(ColNums(t.rows, "cycles")))),
                avg_temperature |-> MeanOf(ColNums(t.rows, "temperature")),
                capacity_fade |-> CapacityFade(t.rows),
                max_resistance |->
                  IF ColNums(t.rows, "internal_resistance") = <<>> THEN FNaN
                  ELSE FNum(MaxOf(Range(ColNums(t.rows, "internal_resistance"))), 1)],
             detailed_metrics |->
               [daily |-> Daily(t.rows),
                monthly_avg |-> MonthlyAvg(t)]]]

\* a gap fill done in place (inplace=True)
FilledObject_inplace(h, arg) == arg

\* the object df.replace(...).fillna(...) returns: a new DataFrame
FilledObject(h, arg) == Len(h) + 1

PutObject(h, id, t) == IF id > Len(h) THEN Append(h, t) ELSE [h EXCEPT ![id] = t]

\* a precondition that tests emptiness only
InvalidInput_emptyOnly(t) == Empty(t)

\* if df.empty or 'date' not in df.columns: raise ValueError
InvalidInput(t) == Empty(t) \/ "date" \notin t.cols

\* generate_report(df) on the table heap[arg]: the outcome and the heap after
GenerateReport(h, arg) ==
    IF InvalidInput(h[arg])
    THEN [status |-> "ValueError", heap |-> h, local |-> 0]
    ELSE LET local == FilledObject(h, arg)
             h1 == PutObject(h, local, FFill(ReplaceInf(h[arg])))
             h2 == [h1 EXCEPT ![local] = Coerce(h1[local])]
             r  == BuildReport(h2[local])
         IN  IF r.status = "ok"
             THEN [status |-> "ok", report |-> r.report, heap |-> h2, local |-> local]
             ELSE [status |-> r.status, heap |-> h2, local |-> local]

-----------------------------------------------------------------------------
(* The Historical Analysis view (src/app.py 133-182) and a direct call *)

\* a stop that returns to the script
StStop_returns(after) == after

\* st.stop(): raises StopException, a BaseException that `except Exception`
\* lets through; the script run ends, the statements after it never run
StStop(after) == "stopped"

NoResult == [status |-> "none"]

ReportWidgets == <<"tabs", "metric", "plotly_chart", "dataframe", "download_button">>

\* the records of a table handed directly to generate_report: the generator's
\* record of each day, and records with one value missing, infinite or no number
ReportRows ==
    {DailyRecord(d) : d \in Dates}
    \cup { Entry(20231231, "nodate"), Entry(20231231, "cap_null"),
           Entry(20231231, "temp_missing"), Entry(20240201, "cap_inf"),
           Entry(20240201, "temp_ninf"), Entry(20231230, "cap_text"),
           Entry(20231230, "cycles_missing") }

EmptyStore == StoreOf(<<>>, <<>>, {})

\* a render of the view: the title is out, the date inputs are read
InitRender ==
    /\ store \in Stores
    /\ listing \in Listings
    /\ start_date \in Dates
    /\ end_date \in {d \in Dates : start_date <= d}
    /\ pc = "load"
    /\ current_year = YearOf(start_date)
    /\ data = <<>>
    /\ heap = <<>>
    /\ df = 0
    /\ result = NoResult
    /\ ui = <<"title">>

\* a caller about to hand generate_report a table built from any records
InitCall ==
    /\ store = EmptyStore
    /\ listing = <<"Q1", "Q3">>
    /\ start_date = MinOf(Dates)
    /\ end_date = MaxOf(Dates)
    /\ pc = "call"
    /\ current_year = YearOf(MinOf(Dates))
    /\ data \in SeqsUpTo(ReportRows, MaxRows)
    /\ heap = <<MakeFrame(data)>>
    /\ df = 1
    /\ result = NoResult
    /\ ui = <<>>

Init == InitRender \/ InitCall

\* while current_year <= end_date.year: the year directory does not exist
LoadSkipYear ==
    /\ pc = "load"
    /\ current_year <= YearOf(end_date)
    /\ ~YearExists(store, current_year)
    /\ current_year' = AfterMissingYear(current_year, YearOf(end_date))
    /\ UNCHANGED <<store, listing, start_date, end_date, pc, data, heap, df, result, ui>>

\* the year directory is read: os.listdir raises on a path that does not exist
ReadYear(st, y, order, start_dt, end_dt, acc) ==
    IF ~st[y].exists THEN [raised |-> TRUE, data |-> acc]
    ELSE ScanYear(st[y], order, start_dt, end_dt, acc)

LoadReadYear ==
    /\ pc = "load"
    /\ current_year <= YearOf(end_date)
    /\ YearExists(store, current_year)
    /\ LET r == ReadYear(store, current_year, listing, start_date, end_date, data)
       IN  /\ ~r.raised
           /\ data' = r.data
    /\ current_year' = current_year + 1
    /\ UNCHANGED <<store, listing, start_date, end_date, pc, heap, df, result, ui>>

\* a record's date does not parse: the error leaves load_generated_data and
\* the view's handler shows it and stops
LoadRaise ==
    /\ pc = "load"
    /\ current_year <= YearOf(end_date)
    /\ YearExists(store, current_year)
    /\ LET r == ReadYear(store, current_year, listing, start_date, end_date, data)
       IN  /\ r.raised
           /\ data' = r.data
    /\ ui' = Append(ui, "error:exception")
    /\ pc' = StStop("tabs")
    /\ UNCHANGED <<store, listing, start_date, end_date, current_year, heap, df, result>>

\* df = pd.DataFrame(data) ... return df
LoadReturn ==
    /\ pc = "load"
    /\ current_year > YearOf(end_date)
    /\ heap' = Append(heap, MakeFrame(data))
    /\ df' = Len(heap) + 1
    /\ pc' = "loaded"
    /\ UNCHANGED <<store, listing, start_date, end_date, current_year, data, result, ui>>

\* if df.empty: st.error(...); st.stop()
ViewNoData ==
    /\ pc = "loaded"
    /\ Empty(heap[df])
    /\ ui' = Append(ui, "error:no_data")
    /\ pc' = StStop("build")
    /\ UNCHANGED <<store, listing, start_date, end_date, current_year, data, heap, df, result>>

AtReportCall == pc = "build" \/ (pc = "loaded" /\ ~Empty(heap[df]))

\* report = generate_report(df) returns
ViewReport ==
    /\ AtReportCall
    /\ LET r == GenerateReport(heap, df)
       IN  /\ r.status = "ok"
           /\ result' = [status |-> "ok", report |-> r.report]
           /\ heap' = r.heap
    /\ pc' = "tabs"
    /\ UNCHANGED <<store, listing, start_date, end_date, current_year, data, df, ui>>

\* generate_report raises: except Exception: st.error(...); st.stop()
ViewReportError ==
    /\ AtReportCall
    /\ LET r == GenerateReport(heap, df)
       IN  /\ r.status # "ok"
           /\ result' = [status |-> r.status]
           /\ heap' = r.heap
    /\ ui' = Append(ui, "error:exception")
    /\ pc' = StStop("tabs")
    /\ UNCHANGED <<store, listing, start_date, end_date, current_year, data, df>>

\* the four tabs: metrics, charts of df, the monthly table, the download
RenderTabs ==
    /\ pc = "tabs"
    /\ ui' = ui \o ReportWidgets
    /\ pc' = "done"
    /\ UNCHANGED <<store, listing, start_date, end_date, current_year, data, heap, df, result>>

\* generate_report(df) called directly
CallGenerateReport ==
    /\ pc = "call"
    /\ LET r == GenerateReport(heap, df)
       IN  /\ result' = IF r.status = "ok"
                        THEN [status |-> "ok", report |-> r.report]
                        ELSE [status |-> r.status]
           /\ heap' = r.heap
    /\ pc' = "returned"
    /\ UNCHANGED <<store, listing, start_date, end_date, current_year, data, df, ui>>

Next ==
    \/ LoadSkipYear
    \/ LoadReadYear
    \/ LoadRaise
    \/ LoadReturn
    \/ ViewNoData
    \/ ViewReport
    \/ ViewReportError
    \/ RenderTabs
    \/ CallGenerateReport

Spec == Init /\ [][Next]_vars

-----------------------------------------------------------------------------
(* Properties *)

RenderPcs == {"load", "loaded", "build", "tabs", "done", "stopped"}

CountIn(s, e) == Cardinality({i \in 1..Len(s) : s[i] = e})

RECURSIVE SetSum(_, _)
SetSum(f, S) ==
    IF S = {} THEN 0
    ELSE LET x == CHOOSE y \in S : TRUE IN f[x] + SetSum(f, S \ {x})

\* the month files under the existing year directories of the selected years
ScannedFiles ==
    {l \in Locations : /\ YearOf(start_date) <= l[1]
                       /\ l[1] <= YearOf(end_date)
                       /\ store[l[1]].exists}

FileAt(l) == store[l[1]].quarters[l[2]][l[3]]

\* how often the loader is to return record e
ExpectedCount(e) ==
    IF /\ "date" \in DOMAIN e
       /\ e["date"].kind = "datestr"
       /\ start_date <= e["date"].v
       /\ e["date"].v <= end_date
    THEN SetSum([l \in ScannedFiles |-> CountIn(FileAt(l), e)], ScannedFiles)
    ELSE 0

\* C1: the table load_generated_data returns holds exactly the records of the
\* month files under the existing year directories of start.year..end.year
\* that have a 'date' key and a date in [start, end], both bounds included;
\* records without a date are skipped, and a single-day range returns only
\* records of that day.
C1_LoadReturnsExactlyRange ==
    (pc \in RenderPcs /\ df # 0) =>
       /\ \A e \in StoreEntries : CountIn(data, e) = ExpectedCount(e)
       /\ Range(data) \subseteq StoreEntries
       /\ Len(heap[df].rows) = Len(data)
       /\ \A i \in 1..Len(data) :
            /\ "date" \in DOMAIN data[i]
            /\ heap[df].rows[i]["date"] = Timestamp(data[i]["date"].v)
            /\ start_date <= heap[df].rows[i]["date"].v
            /\ heap[df].rows[i]["date"].v <= end_date
            /\ (start_date = end_date => heap[df].rows[i]["date"].v = start_date)

\* a single-day range over a scanned file that holds a record of that day and
\* a record of another day
C1_Witness ==
    /\ pc = "loaded"
    /\ start_date = end_date
    /\ Len(data) = 1
    /\ \E l \in ScannedFiles : \E i \in 1..Len(FileAt(l)) :
         /\ "date" \in DOMAIN FileAt(l)[i]
         /\ FileAt(l)[i]["date"].kind = "datestr"
         /\ FileAt(l)[i]["date"].v # start_date

HasReportWidget == \E i \in 1..Len(ui) : ui[i] \in Range(ReportWidgets)

ErrorMessages == {"error:no_data", "error:exception"}

\* the render has stopped, an error message was its last output and no report
\* widget is out
StoppedOnError ==
    /\ pc = "stopped"
    /\ ui[Len(ui)] \in ErrorMessages
    /\ ~HasReportWidget

\* C8: in a render of the Historical Analysis view, an empty table from the
\* loader, or an error raised by the loader or by generate_report, shows one
\* error message and stops the render with no report widget emitted; report
\* widgets are emitted only after generate_report returned in that render.
C8_ErrorStopsRender ==
    (pc \in RenderPcs) =>
       /\ HasReportWidget =>
            /\ result.status = "ok"
            /\ df # 0
            /\ ~Empty(heap[df])
            /\ \A i \in 1..Len(ui) : ui[i] \notin ErrorMessages
       /\ (df # 0 /\ Empty(heap[df]) /\ pc # "loaded") => StoppedOnError
       /\ (pc # "load" /\ df = 0) => StoppedOnError
       /\ (result.status \notin {"none", "ok"}) => StoppedOnError
       /\ (pc = "stopped") => StoppedOnError

\* generate_report raised on a table the loader returned
C8_Witness ==
    /\ pc = "stopped"
    /\ df # 0
    /\ ~Empty(heap[df])
    /\ result.status = "KeyError"

NoYearDirectory ==
    \A y \in YearOf(start_date)..YearOf(end_date) : ~(y \in DOMAIN store /\ store[y].exists)

\* C9: load_generated_data passes over a missing year directory without an
\* error and goes on with the next year; the loop ends (the year only grows
\* and never passes end.year + 1); when no year directory of the range exists
\* it returns an empty table and raises nothing.
C9_MissingYearSkipped ==
    /\ [](pc = "load" => current_year <= YearOf(end_date) + 1)
    /\ []((pc \in RenderPcs /\ pc # "load" /\ NoYearDirectory) =>
            (df # 0 /\ Empty(heap[df]) /\ "error:exception" \notin Range(ui)))
    /\ [][(pc = "load" /\ current_year <= YearOf(end_date)
             /\ ~store[current_year].exists) =>
            (pc' = "load" /\ current_year' = current_year + 1 /\ data' = data)]_vars
    /\ [][(pc = "load") => (pc' # "load" \/ current_year' > current_year)]_vars

\* the first year of the range has no directory, the second has one, and its
\* records were loaded
C9_Witness ==
    /\ pc = "loaded"
    /\ YearOf(start_date) < YearOf(end_date)
    /\ ~store[YearOf(start_date)].exists
    /\ store[YearOf(end_date)].exists
    /\ Len(data) > 0

\* C10: generate_report leaves the caller's table as it was: after it returns
\* or raises, the table has the rows, order, columns and values it had before
\* the call, so the table the view charts is the table the loader returned.
C10_InputUntouched ==
    /\ []((pc \in {"tabs", "done", "stopped", "returned"} /\ df # 0) =>
            heap[df] = MakeFrame(data))
    /\ [][(pc \in {"loaded", "build", "call"}) =>
            (df' = df /\ heap'[df] = heap[df])]_vars

\* the view renders its charts after a report whose gap fill changed values
C10_Witness ==
    /\ pc = "done"
    /\ Len(heap) = 2
    /\ heap[2] # heap[df]

-----------------------------------------------------------------------------
(* Properties of generate_report *)

\* the value gap fill and coercion are to leave in row i, column c of table t:
\* the value of the nearest row at or above i that is neither missing nor
\* infinite, made a number in a numeric column
ExpectedCell(t, i, c) ==
    LET js  == {j \in 1..i : t.rows[j][c].kind \notin {"nan", "inf", "ninf"}}
        raw == IF js = {} THEN NaN ELSE t.rows[MaxOf(js)][c]
    IN  IF c \in NumericCols /\ raw.kind # "num" THEN NaN ELSE raw

\* x is the mean of the numbers ExpectedCell gives column c in the rows I
IsMeanOf(x, t, I, c) ==
    LET J == {i \in I : ExpectedCell(t, i, c).kind = "num"}
    IN  IF J = {} THEN x.kind \in {"nan", "null"}
        ELSE /\ x.kind = "num"
             /\ x.v[1] * Cardinality(J)
                  = x.v[2] * SetSum([i \in J |-> ExpectedCell(t, i, c).v], J)

Called == result.status # "none"
Returned == result.status = "ok"

\* C2 as stated: generate_report fails with ValueError when the table is
\* empty or some element has no date, and returns a report only when the
\* table is non-empty and every element has a date.
C2_Original ==
    Called =>
      LET t   == heap[df]
          bad == \/ Empty(t)
                 \/ "date" \notin t.cols
                 \/ \E i \in 1..Len(t.rows) : t.rows[i]["date"].kind # "ts"
      IN  /\ bad => result.status = "ValueError"
          /\ Returned => ~bad

\* C2 amended: generate_report fails with ValueError when the table is empty
\* or has no date column (no element has a date), and returns a report only
\* when the table is non-empty and has a date column.
C2_InvalidInputRejected ==
    Called =>
      LET t   == heap[df]
          bad == Empty(t) \/ "date" \notin t.cols
      IN  /\ bad => result.status = "ValueError"
          /\ Returned => ~bad

\* a non-empty table without a date column is rejected
C2_Witness ==
    /\ pc = "returned"
    /\ result.status = "ValueError"
    /\ ~Empty(heap[df])
    /\ "date" \notin heap[df].cols

JsonPrimitive(x) ==
    IF x.kind = "ts" THEN DateStr(x.v) ELSE IF x.kind = "nan" THEN None ELSE x

\* C3: detailed_metrics.daily has one element per input row, in order, and
\* each element is a record whose values are JSON primitives: the date a
\* 'YYYY-MM-DD' string, a missing value null, a number a plain number.
C3_DailyJsonRecords ==
    Returned =>
      LET t     == heap[df]
          daily == result.report.detailed_metrics.daily
      IN  /\ Len(daily) = Len(t.rows)
          /\ \A i \in 1..Len(daily) :
               /\ daily[i].kind = "dict"
               /\ DOMAIN daily[i].v = t.cols
               /\ \A c \in t.cols :
                    daily[i].v[c] = JsonPrimitive(ExpectedCell(t, i, c))

\* the calendar months in which a record's date falls
RecordMonths(t) ==
    {MonthIndex(t.rows[i]["date"].v) :
       i \in {j \in 1..Len(t.rows) : t.rows[j]["date"].kind = "ts"}}

\* the rows gap fill dates in month mi
RowsIn(t, mi) ==
    {i \in 1..Len(t.rows) :
       /\ ExpectedCell(t, i, "date").kind = "ts"
       /\ MonthIndex(ExpectedCell(t, i, "date").v) = mi}

MonthlyMeansRight(t, m) ==
    \A k \in 1..Len(m["date"]) : \A c \in t.cols \cap NumericCols :
       IsMeanOf(m[c][k], t, RowsIn(t, MonthIndex(m["date"][k].v)), c)

\* C4 as stated: monthly_avg has exactly one row for each calendar month in
\* which a record's date falls and no row for a month without records, and
\* each row holds the mean of every numeric column over the month's records.
C4_Original ==
    Returned =>
      LET t == heap[df]
          m == result.report.detailed_metrics.monthly_avg
      IN  /\ {MonthIndex(m["date"][k].v) : k \in 1..Len(m["date"])} = RecordMonths(t)
          /\ Len(m["date"]) = Cardinality(RecordMonths(t))
          /\ MonthlyMeansRight(t, m)

\* C4 amended: monthly_avg has exactly one row, in order, for each calendar
\* month from the month of the earliest record date to the month of the
\* latest, the months between them that hold no record included (their means
\* are missing); each row is labelled with the month's last day and holds,
\* for every numeric column, the mean of that column over the month's records
\* after gap fill.
C4_MonthlyRowsSpanRange ==
    Returned =>
      LET t  == heap[df]
          m  == result.report.detailed_metrics.monthly_avg
          lo == MinOf(RecordMonths(t))
          hi == MaxOf(RecordMonths(t))
      IN  /\ DOMAIN m = {"date"} \cup (t.cols \cap NumericCols)
          /\ \A c \in DOMAIN m : Len(m[c]) = hi - lo + 1
          /\ \A k \in 1..(hi - lo + 1) :
               /\ m["date"][k].kind = "datestr"
               /\ MonthIndex(m["date"][k].v) = lo + k - 1
               /\ DayOf(m["date"][k].v)
                    = DaysInMonth(YearOf(m["date"][k].v), MonthOf(m["date"][k].v))
          /\ MonthlyMeansRight(t, m)

\* a report with a row for a month in which no record's date falls
C4_Witness ==
    /\ Returned
    /\ \E k \in 1..Len(result.report.detailed_metrics.monthly_avg["date"]) :
         /\ MonthIndex(result.report.detailed_metrics.monthly_avg["date"][k].v)
              \notin RecordMonths(heap[df])
         /\ result.report.detailed_metrics.monthly_avg["capacity_ah"][k].kind = "nan"

Reversed(t) == [t EXCEPT !.rows = [i \in 1..Len(t.rows) |-> t.rows[Len(t.rows) + 1 - i]]]

\* every row holds a finite positive capacity
ValidCapacity(t) ==
    /\ "capacity_ah" \in t.cols
    /\ \A i \in 1..Len(t.rows) :
         t.rows[i]["capacity_ah"].kind = "num" /\ t.rows[i]["capacity_ah"].v > 0

\* the report on the caller's table with its rows reversed
ReportOnReversed == GenerateReport(<<Reversed(heap[df])>>, 1)

\* C5 as stated: for every non-empty table with valid capacity_ah values the
\* capacity_fade of the table and that of the table reversed differ.
C5_Original ==
    (Returned /\ ValidCapacity(heap[df])) =>
       /\ ReportOnReversed.status = "ok"
       /\ ReportOnReversed.report.summary.capacity_fade
            # result.report.summary.capacity_fade

\* C5 amended: for every non-empty table with valid capacity_ah values the
\* capacity_fade of the table is 1 - last/first and that of the table
\* reversed is 1 - first/last; the two differ exactly when the first and the
\* last row's capacity_ah differ, and both are 0 when these are equal (as in
\* a table of one row).
C5_FadeOrderDependent ==
    (Returned /\ ValidCapacity(heap[df])) =>
      LET t     == heap[df]
          first == t.rows[1]["capacity_ah"].v
          last  == t.rows[Len(t.rows)]["capacity_ah"].v
          fade  == result.report.summary.capacity_fade
          rfade == ReportOnReversed.report.summary.capacity_fade
      IN  /\ ReportOnReversed.status = "ok"
          /\ fade.kind = "num" /\ rfade.kind = "num"
          /\ fade.v[1] * first = (first - last) * fade.v[2]
          /\ rfade.v[1] * last = (last - first) * rfade.v[2]
          /\ (fade # rfade) <=> (first # last)
          /\ (first = last) => (fade.v = <<0, 1>> /\ rfade.v = <<0, 1>>)

\* a table of several rows whose first and last capacity differ
C5_Witness ==
    /\ Returned
    /\ ValidCapacity(heap[df])
    /\ Len(heap[df].rows) > 1
    /\ heap[df].rows[1]["capacity_ah"] # heap[df].rows[Len(heap[df].rows)]["capacity_ah"]
    /\ ReportOnReversed.report.summary.capacity_fade
         # result.report.summary.capacity_fade

\* C6: capacity_fade is 1 - capacity_ah[last] / capacity_ah[first] over the
\* first and the last row in table order after gap fill, whatever their
\* dates; capacities 100, 99, 98 give 0.02.
C6_FadeFirstLastInTableOrder ==
    Returned =>
      LET t     == heap[df]
          first == ExpectedCell(t, 1, "capacity_ah")
          last  == ExpectedCell(t, Len(t.rows), "capacity_ah")
          fade  == result.report.summary.capacity_fade
      IN  IF first.kind = "num" /\ last.kind = "num" /\ first.v # 0
          THEN /\ fade.kind = "num"
               /\ fade.v[2] > 0
               /\ fade.v[1] * first.v = (first.v - last.v) * fade.v[2]
          ELSE fade.kind # "num"

\* three records with capacities 100, 99, 98: the fade is 1/50
C6_Witness ==
    /\ Returned
    /\ Len(heap[df].rows) = 3
    /\ \A i \in 1..3 : heap[df].rows[i]["capacity_ah"] = Num(101 - i)
    /\ result.report.summary.capacity_fade.v = <<1, 50>>

\* C7: before the summary is computed every missing or infinite numeric value
\* is replaced by the value of its column in the nearest earlier row that has
\* one, and stays missing when there is none; avg_temperature is the mean of
\* the forward-filled temperatures.
C7_ForwardFill ==
    (df # 0 /\ Len(heap) > df) =>
      LET t == heap[df]
          f == heap[Len(heap)]
      IN  /\ f.cols = t.cols
          /\ Len(f.rows) = Len(t.rows)
          /\ \A i \in 1..Len(t.rows) : \A c \in t.cols :
               f.rows[i][c] = ExpectedCell(t, i, c)
          /\ Returned =>
               IsMeanOf(result.report.summary.avg_temperature, t,
                        1..Len(t.rows), "temperature")

\* a record without temperature below one that has it, and a first record
\* whose missing value stays missing
C7_Witness ==
    /\ Returned
    /\ Len(heap) > df
    /\ \E i \in 2..Len(heap[df].rows) :
         /\ heap[df].rows[i]["temperature"].kind = "nan"
         /\ heap[Len(heap)].rows[i]["temperature"].kind = "num"
         /\ heap[df].rows[1]["capacity_ah"].kind = "nan"
         /\ heap[Len(heap)].rows[1]["capacity_ah"].kind = "nan"

====
